---------------------------- MODULE Spec2Model ----------------------------
(***************************************************************************)
(* A model of the epidemic simulation kernel: the Population table          *)
(* (src/src/population.py) and the infection step of Virus                  *)
(* (src/src/virus_util.py).                                                 *)
(*                                                                         *)
(* The table is a NumPy float64 array of shape (size, 16).  Every cell the  *)
(* model writes an integer into holds a small integer, which float64        *)
(* represents exactly, so those cells are TLA+ integers.  Column 13         *)
(* (susceptibility) is the one column computed with fractions; it holds a   *)
(* binary64 value, modelled bit for bit (see the Float section).            *)
(* Rows are numbered from 0, as in the code.                                *)
(***************************************************************************)
EXTENDS Integers, Sequences, FiniteSets, TLC

VARIABLES
    persons,          \* Population.persons: [0..size-1 -> [0..15 -> cell]]
    infection_range,  \* Virus.infection_range (config value)
    pc,               \* position of the running call: "idle" or a place in infect
    infected_idx,     \* infect: the copy returned by get_all_infected()
    k,                \* infect: position of the outer loop in infected_idx (from 1)
    tmp,              \* infect: the ids returned by find_nearby for the current idx
    t,                \* infect: position of the inner loop in tmp (from 1)
    ret,              \* value returned by the last completed call
    err,              \* exception raised by the last completed call, or "none"
    last,             \* history: the last call that writes the table, with its data
    calls,            \* number of calls made with caller-supplied data
    persons0,         \* history: the table when the running (or last) call began
    infected_rows,    \* history: the row numbers the rows of infected_idx were copied from
    made,             \* history: per row, infections performed by that row as infector
    table0            \* history: the table in the initial state

vars == <<persons, infection_range, pc, infected_idx, k, tmp, t, ret, err,
          last, calls, persons0, infected_rows, made, table0>>

-----------------------------------------------------------------------------
(* Bounds of the model *)

MaxCoord == 1     \* x coordinates are drawn from 0..MaxCoord
MaxG == 1         \* initial g_values are drawn from 0..MaxG
Sizes == 1..3     \* the population sizes modelled

(* Column numbers: Population.__init__ docstring, person_properties_util *)
NumCols == 16
id == 0
age == 1
x_axis == 2
y_axis == 3
x_dir == 4
y_dir == 5
speed == 6
active == 7
at_destination == 8
current_state == 9
wander_x == 10
wander_y == 11
g_value == 12
susceptibility == 13
mortality_rate == 14
mask_effectiveness == 15

Cols == 0..(NumCols - 1)
States == 0..3    \* 0 healthy, 1 infected, 2 immune, 3 dead

-----------------------------------------------------------------------------
(* binary64 values.  A value is mant * 2^exp with mant < 2^53, and mant is   *)
(* zero (written <<>>) or has bit 52 set, so each value has one              *)
(* representation.  mant is written in limbs of LimbBits bits, least         *)
(* significant limb first.  Only non-negative values in the normal range     *)
(* occur.  Arithmetic rounds to nearest, ties to even, as IEEE 754 does.     *)

MantBits == 53
LimbBits == 11
LimbBase == 2 ^ LimbBits
NumLimbs == 5          \* 5 limbs of 11 bits hold the 53 bits of mant

FZero == [exp |-> 0, mant |-> <<>>]

\* bit n (from 0) of the natural written in limbs
Bit(limbs, n) ==
    IF n \div LimbBits >= Len(limbs) THEN 0
    ELSE (limbs[(n \div LimbBits) + 1] \div (2 ^ (n % LimbBits))) % 2

\* the number of bits of the natural written in limbs (0 for zero)
RECURSIVE BitLenFrom(_, _)
BitLenFrom(limbs, n) ==
    IF n = 0 THEN 0
    ELSE IF Bit(limbs, n - 1) = 1 THEN n ELSE BitLenFrom(limbs, n - 1)

BitLen(limbs) == BitLenFrom(limbs, Len(limbs) * LimbBits)

\* limb i (from 1) of the natural whose bit j is bits[j + 1]
PackLimb(bits, i) ==
    LET Lo == (i - 1) * LimbBits
        RECURSIVE Val(_)
        Val(j) == IF j >= LimbBits \/ Lo + j >= Len(bits) THEN 0
                  ELSE bits[Lo + j + 1] * (2 ^ j) + Val(j + 1)
    IN  Val(0)

Pack(bits) == [i \in 1..NumLimbs |-> PackLimb(bits, i)]

\* limbs + 1, with the carry run through the limbs (the result may reach 2^53)
RECURSIVE IncFrom(_, _)
IncFrom(limbs, i) ==
    IF i > Len(limbs) THEN limbs
    ELSE IF limbs[i] + 1 < LimbBase THEN [limbs EXCEPT ![i] = @ + 1]
    ELSE IncFrom([limbs EXCEPT ![i] = 0], i + 1)

\* mant (already 53 bits wide) rounded up or not, and renormalised when the
\* increment carries into bit 53
Rounded(mant, exp, up) ==
    IF ~up THEN [exp |-> exp, mant |-> mant]
    ELSE LET m == IncFrom(mant, 1)
         IN  IF Bit(m, MantBits) = 1
             THEN [exp |-> exp + 1,
                   mant |-> Pack([j \in 1..MantBits |-> IF j = MantBits THEN 1 ELSE 0])]
             ELSE [exp |-> exp, mant |-> m]

\* round to nearest, ties to even: guard is the first dropped bit, sticky says
\* whether any later dropped bit is set, odd whether the kept mant is odd
RoundUp(guard, sticky, odd) == guard = 1 /\ (sticky \/ odd)

\* the product of two naturals in limbs, as limbs
Product(a, b) ==
    LET n == Len(a) + Len(b)
        RECURSIVE ColSum(_, _)
        ColSum(c, i) ==      \* sum of a[i] * b[c + 2 - i] over the limbs that exist
            IF i > Len(a) THEN 0
            ELSE (IF c + 2 - i \in 1..Len(b) THEN a[i] * b[c + 2 - i] ELSE 0)
                 + ColSum(c, i + 1)
        RECURSIVE Carry(_, _)
        Carry(c, carry) ==
            IF c >= n THEN <<>>
            ELSE LET v == ColSum(c, 1) + carry
                 IN  <<v % LimbBase>> \o Carry(c + 1, v \div LimbBase)
    IN  Carry(0, 0)

\* f * g
FMul(f, g) ==
    IF f.mant = <<>> \/ g.mant = <<>> THEN FZero
    ELSE LET P == Product(f.mant, g.mant)
             sh == BitLen(P) - MantBits           \* bits dropped: 52 or 53
             kept == Pack([j \in 1..MantBits |-> Bit(P, sh + j - 1)])
             sticky == \E j \in 0..(sh - 2) : Bit(P, j) = 1
         IN  Rounded(kept, f.exp + g.exp + sh,
                     RoundUp(Bit(P, sh - 1), sticky, Bit(P, sh) = 1))

\* the quotient a / b of two integers a >= 0, b > 0 that binary64 holds
\* exactly, correctly rounded.  It is also the value of a decimal literal:
\* 0.1 is Quotient(1, 10).
Quotient(a, b) ==
    IF a = 0 THEN FZero
    ELSE LET RECURSIVE Scale(_)       \* s with b * 2^s <= a < b * 2^(s+1)
             Scale(s) == IF s >= 0
                         THEN IF a < b * (2 ^ s) THEN Scale(s - 1)
                              ELSE IF a >= b * (2 ^ (s + 1)) THEN Scale(s + 1) ELSE s
                         ELSE IF a * (2 ^ (-s)) < b THEN Scale(s - 1) ELSE s
             s == Scale(0)
             num == IF s >= 0 THEN a ELSE a * (2 ^ (-s))
             den == IF s >= 0 THEN b * (2 ^ s) ELSE b
             \* long division: the remainders before quotient bits 0..53 (bit 0 is the leading 1)
             RECURSIVE Rems(_, _)
             Rems(j, r) == IF j >= MantBits THEN <<r>>
                           ELSE <<r>> \o Rems(j + 1, 2 * (IF r >= den THEN r - den ELSE r))
             rs == Rems(0, num)       \* rs[j + 1] is the remainder before bit j
             \* quotient bit j has weight 2^(52 - j) in mant
             kept == Pack([i \in 1..MantBits |-> IF rs[MantBits - i + 1] >= den THEN 1 ELSE 0])
             final == rs[MantBits + 1]
         IN  Rounded(kept, s - (MantBits - 1),
                     RoundUp(IF final >= den THEN 1 ELSE 0, final > den, rs[MantBits] >= den))

\* f <= g for the non-negative values of the model
FLe(f, g) ==
    IF f.mant = <<>> THEN TRUE
    ELSE IF g.mant = <<>> THEN FALSE
    ELSE IF f.exp # g.exp THEN f.exp < g.exp
    ELSE LET RECURSIVE LeFrom(_)
             LeFrom(i) == IF i = 0 THEN TRUE
                          ELSE IF f.mant[i] # g.mant[i] THEN f.mant[i] < g.mant[i]
                          ELSE LeFrom(i - 1)
         IN  LeFrom(NumLimbs)

\* the next value above f
FSucc(f) == Rounded(f.mant, f.exp, TRUE)

-----------------------------------------------------------------------------
(* The table *)

\* np.zeros((size, 16)): population.py line 33
Population(size) == [r \in 0..(size - 1) |-> [c \in Cols |-> IF c = susceptibility THEN FZero ELSE 0]]

\* list(range(low, high)): population.py line 237
IdRange(low, high) == [n \in 1..(IF high > low THEN high - low ELSE 0) |-> low + n - 1]

\* what a call that returns nothing leaves as its value
NoReturn == [op |-> "None", val |-> <<>>]

\* len(self.persons)
NumRows(p) == Cardinality(DOMAIN p)

\* Python's a[n] on an array of len rows: a negative n counts from the end
PyIndex(len, n) == IF n < 0 THEN n + len ELSE n

\* a[n] raises IndexError unless the normalised index is a row
IndexOk(len, n) == PyIndex(len, n) \in 0..(len - 1)

\* persons[:, col] as a sequence
Column(p, col) == [n \in 1..NumRows(p) |-> p[n - 1][col]]

\* the row numbers r >= from with p[r][col] = v, in increasing order
RECURSIVE RowsFrom(_, _, _, _)
RowsFrom(p, col, v, from) ==
    IF from >= NumRows(p) THEN <<>>
    ELSE IF p[from][col] = v THEN <<from>> \o RowsFrom(p, col, v, from + 1)
    ELSE RowsFrom(p, col, v, from + 1)

\* persons[persons[:,9] == 1]: a copy of the infected rows, in row order
get_all_infected(p) ==
    LET rows == RowsFrom(p, 9, 1, 0) IN [n \in 1..Len(rows) |-> p[rows[n]]]

\* persons[persons[:,9] == 0]
get_all_healthy(p) ==
    LET rows == RowsFrom(p, 9, 0, 0) IN [n \in 1..Len(rows) |-> p[rows[n]]]

-----------------------------------------------------------------------------
(* Population: column assignment, setters, getters, initializers *)

MaxCalls == 2     \* calls that take caller-supplied data, per behaviour

\* mutant: an assignment that takes only data of the table's length
BroadcastableExact(len, data) == Len(data) = len

\* NumPy's rule for persons[:, col] = data: data of the table's length is
\* copied row by row, data of length 1 is broadcast to every row, anything
\* else raises ValueError before a cell is written
Broadcastable(len, data) == Len(data) = len \/ Len(data) = 1

AssignColumn(p, col, data) ==
    [r \in DOMAIN p |-> [p[r] EXCEPT ![col] = IF Len(data) = 1 THEN data[1] ELSE data[r + 1]]]

infectLocals == <<infected_idx, k, tmp, t, infected_rows, made>>

\* the body self.persons[:, col] = data of a call made with data
Assign(col, data) ==
    /\ pc = "idle"
    /\ calls < MaxCalls
    /\ calls' = calls + 1
    /\ persons0' = persons
    /\ ret' = NoReturn
    /\ IF Broadcastable(NumRows(persons), data)
       THEN persons' = AssignColumn(persons, col, data) /\ err' = "none"
       ELSE persons' = persons /\ err' = "ValueError"
    /\ UNCHANGED <<infection_range, pc, infectLocals, table0>>

set_age(data) ==
    /\ Assign(1, data)
    /\ last' = [op |-> "set_age", data |-> data]

set_x_axis(data) ==
    /\ Assign(2, data)
    /\ last' = [op |-> "set_x_axis", data |-> data]

set_current_state(data) ==
    /\ Assign(8, data)
    /\ last' = [op |-> "set_current_state", data |-> data]

set_y_axis(data) ==
    /\ Assign(3, data)
    /\ last' = [op |-> "set_y_axis", data |-> data]

set_g_value(data) ==
    /\ Assign(12, data)
    /\ last' = [op |-> "set_g_value", data |-> data]

set_speed(data) ==
    /\ Assign(6, data)
    /\ last' = [op |-> "set_speed", data |-> data]

set_at_destination(data) ==
    /\ Assign(8, data)
    /\ last' = [op |-> "set_at_destination", data |-> data]

set_active(data) ==
    /\ Assign(7, data)
    /\ last' = [op |-> "set_active", data |-> data]

set_x_dir(data) ==
    /\ Assign(4, data)
    /\ last' = [op |-> "set_x_dir", data |-> data]

set_y_dir(data) ==
    /\ Assign(5, data)
    /\ last' = [op |-> "set_y_dir", data |-> data]

set_mask_effectiveness(data) ==
    /\ Assign(15, data)
    /\ last' = [op |-> "set_mask_effectiveness", data |-> data]

\* ID = list(range(low, high)); self.persons[:,0] = ID
initialize_id(low, high) ==
    /\ Assign(0, IdRange(low, high))
    /\ last' = [op |-> "initialize_id", data |-> IdRange(low, high)]

\* a call that returns a value and writes nothing
Get ==
    /\ pc = "idle"
    /\ err' = "none"
    /\ UNCHANGED <<persons, infection_range, pc, infectLocals, last, calls, persons0, table0>>

get_x_axis ==
    /\ Get
    /\ ret' = [op |-> "get_x_axis", val |-> Column(persons, 2)]

get_y_axis ==
    /\ Get
    /\ ret' = [op |-> "get_y_axis", val |-> Column(persons, 3)]

get_current_state ==
    /\ Get
    /\ ret' = [op |-> "get_current_state", val |-> Column(persons, 9)]

get_person ==
    /\ Get
    /\ ret' = [op |-> "get_person", val |-> persons]

get_all_infected_call ==
    /\ Get
    /\ ret' = [op |-> "get_all_infected", val |-> get_all_infected(persons)]

get_all_healthy_call ==
    /\ Get
    /\ ret' = [op |-> "get_all_healthy", val |-> get_all_healthy(persons)]

get_currently_active_info ==
    /\ Get
    /\ ret' = [op |-> "get_currently_active_info", val |-> Column(persons, 7)]

\* mask_effective_range, population.py line 295
MaskRange == {0, 50, 70, 90}

\* initialize_mask_eff(size): size draws from the four values, stored through
\* set_mask_effectiveness
initialize_mask_eff(data) ==
    /\ Assign(15, data)
    /\ last' = [op |-> "initialize_mask_eff", data |-> data]

\* mutant: the discount is not divided by 100
SusceptibilityNoPercent(m) == FMul(Quotient(100 - m, 1), Quotient(1, 10))

\* lines 319-322 for one row: ((100 - m) / 100) * 0.1 in binary64.  100 - m is an
\* integer, which binary64 holds exactly.
Susceptibility(m) == FMul(Quotient(100 - m, 100), Quotient(1, 10))

\* the mask_effectiveness values the model's calls can store
MaskValues == MaskRange \cup {0, 1}

\* Susceptibility over MaskValues, evaluated once
SusceptibilityOf == [m \in MaskValues |-> Susceptibility(m)]

\* lines 319-324
initialize_susceptibility ==
    /\ pc = "idle"
    /\ last' = [op |-> "initialize_susceptibility", data |-> <<>>]
    /\ persons0' = persons
    /\ ret' = NoReturn
    /\ err' = "none"
    /\ persons' = [r \in DOMAIN persons |->
                     [persons[r] EXCEPT ![13] = SusceptibilityOf[persons[r][15]]]]
    /\ UNCHANGED <<infection_range, pc, infectLocals, calls, table0>>

-----------------------------------------------------------------------------
(* Virus *)

\* math.sqrt(self.infection_range), for an infection_range that is a perfect square
Sqrt(r) == CHOOSE s \in 0..r : s * s = r

\* mutant: the mask without its disease-state term
InBoxAnyState(p, r, x_bounds, y_bounds) ==
    /\ x_bounds[1] < p[r][x_axis]
    /\ x_bounds[2] > p[r][x_axis]
    /\ y_bounds[1] < p[r][y_axis]
    /\ y_bounds[2] > p[r][y_axis]

\* mutant: the upper x bound is inclusive
InBoxInclusive(p, r, x_bounds, y_bounds) ==
    /\ x_bounds[1] < p[r][x_axis]
    /\ x_bounds[2] >= p[r][x_axis]
    /\ y_bounds[1] < p[r][y_axis]
    /\ y_bounds[2] > p[r][y_axis]
    /\ p[r][current_state] = 0

\* the boolean mask of find_nearby: row r is healthy and strictly inside the box
InBox(p, r, x_bounds, y_bounds) ==
    /\ x_bounds[1] < p[r][x_axis]
    /\ x_bounds[2] > p[r][x_axis]
    /\ y_bounds[1] < p[r][y_axis]
    /\ y_bounds[2] > p[r][y_axis]
    /\ p[r][current_state] = 0

RECURSIVE NearbyFrom(_, _, _, _)
NearbyFrom(p, x_bounds, y_bounds, from) ==
    IF from >= NumRows(p) THEN <<>>
    ELSE IF InBox(p, from, x_bounds, y_bounds)
         THEN <<p[from][id]>> \o NearbyFrom(p, x_bounds, y_bounds, from + 1)
         ELSE NearbyFrom(p, x_bounds, y_bounds, from + 1)

\* Virus.find_nearby: persons[:,0][mask], the ids of the selected rows in row order
find_nearby(p, x_bounds, y_bounds) == NearbyFrom(p, x_bounds, y_bounds, 0)

\* lines 39-40: the bounds read from row c of the live table
XBounds(p, c, range) == <<p[c][x_axis] - Sqrt(range), p[c][x_axis] + Sqrt(range)>>
YBounds(p, c, range) == <<p[c][y_axis] - Sqrt(range), p[c][y_axis] + Sqrt(range)>>

\* mutant: the draw alone decides, the g_value is not consulted
ShouldInfectAnyG(p, c, chance) == chance

\* line 49: chance is the outcome of "np.random.uniform(0, 1) < 0.06"
ShouldInfect(p, c, chance) == chance /\ p[c][g_value] > 0

\* mutant: the infector's g_value is left as it is
InfectWriteNoDecrement(p, c, i) == [p EXCEPT ![i][9] = 1]

\* mutant: the decrement lands on the candidate's g_value
InfectWriteDecrementsCandidate(p, c, i) ==
    LET q == [p EXCEPT ![i][9] = 1]
    IN  [q EXCEPT ![i][g_value] = q[i][g_value] - 1]

\* mutant: the state is written to column 8, as set_current_state does
InfectWriteColumn8(p, c, i) ==
    LET q == [p EXCEPT ![i][8] = 1]
    IN  [q EXCEPT ![c][g_value] = q[c][g_value] - 1]

\* lines 50-51: persons[int(i)][9] = 1, then persons[int(idx[0])][g_value] -= 1
InfectWrite(p, c, i) ==
    LET q == [p EXCEPT ![i][9] = 1]
    IN  [q EXCEPT ![c][g_value] = q[c][g_value] - 1]

\* int(idx[0]) of the current idx, as a row number of the live table
Centre == PyIndex(NumRows(persons), infected_idx[k][id])

\* line 31-36: the call begins; infected_idx is a copy taken now
InfectBegin ==
    /\ pc = "idle"
    /\ infected_idx' = get_all_infected(persons)
    /\ infected_rows' = RowsFrom(persons, 9, 1, 0)
    /\ k' = 1
    /\ tmp' = <<>>
    /\ t' = 1
    /\ pc' = "for_idx"
    /\ err' = "none"
    /\ persons0' = persons
    /\ UNCHANGED <<persons, infection_range, ret, last, calls, made, table0>>

\* line 38-44: the next idx of the outer loop; its bounds and candidates.
\* persons[int(idx[0])] raises IndexError when the id is no row number.
InfectForIdx ==
    /\ pc = "for_idx"
    /\ k <= Len(infected_idx)
    /\ IF IndexOk(NumRows(persons), infected_idx[k][id])
       THEN /\ tmp' = find_nearby(persons, XBounds(persons, Centre, infection_range),
                                           YBounds(persons, Centre, infection_range))
            /\ t' = 1
            /\ pc' = "for_i"
            /\ UNCHANGED err
       ELSE /\ pc' = "idle"
            /\ err' = "IndexError"
            /\ UNCHANGED <<tmp, t>>
    /\ UNCHANGED <<persons, infection_range, infected_idx, k, ret, last, calls,
                   persons0, infected_rows, made, table0>>

\* lines 47-51: one candidate i of tmp
InfectForI ==
    /\ pc = "for_i"
    /\ t <= Len(tmp)
    /\ \E chance \in BOOLEAN :
          IF ShouldInfect(persons, Centre, chance)
          THEN IF IndexOk(NumRows(persons), tmp[t])
               THEN /\ persons' = InfectWrite(persons, Centre, PyIndex(NumRows(persons), tmp[t]))
                    /\ made' = [made EXCEPT ![infected_rows[k]] = @ + 1]
                    /\ t' = t + 1
                    /\ UNCHANGED <<pc, err>>
               ELSE /\ pc' = "idle"
                    /\ err' = "IndexError"
                    /\ UNCHANGED <<persons, made, t>>
          ELSE /\ t' = t + 1
               /\ UNCHANGED <<persons, made, pc, err>>
    /\ UNCHANGED <<infection_range, infected_idx, k, tmp, ret, last, calls,
                   persons0, infected_rows, table0>>

\* the inner loop is exhausted: back to the outer loop
InfectEndI ==
    /\ pc = "for_i"
    /\ t > Len(tmp)
    /\ k' = k + 1
    /\ pc' = "for_idx"
    /\ UNCHANGED <<persons, infection_range, infected_idx, tmp, t, ret, err,
                   last, calls, persons0, infected_rows, made, table0>>

\* line 52: return population (the object passed in, which is the table itself)
InfectReturn ==
    /\ pc = "for_idx"
    /\ k > Len(infected_idx)
    /\ pc' = "idle"
    /\ UNCHANGED <<persons, infection_range, infected_idx, k, tmp, t, ret, err,
                   last, calls, persons0, infected_rows, made, table0>>

NextInfect == InfectBegin \/ InfectForIdx \/ InfectForI \/ InfectEndI \/ InfectReturn

-----------------------------------------------------------------------------
(* Populations a driver has prepared: ids by initialize_id(0, size),         *)
(* positions, disease states and g_values drawn from the bounded sets.      *)

Coords == 0..MaxCoord
YCoords == 0..1
Ranges == {1, 4}

\* One prepared individual: healthy and infected individuals anywhere on the
\* grid with any g_value; immune and dead ones stand at the origin with g_value 0.
Individuals ==
    [x : Coords, y : YCoords, s : {0, 1}, g : 0..MaxG]
        \cup [x : {0}, y : {0}, s : {2, 3}, g : {0}]

\* the table after the driver has written ids, positions, states and g_values
Prepared(ids, who) ==
    [r \in 0..(Len(who) - 1) |->
        [Population(Len(who))[r] EXCEPT ![id] = ids[r + 1],
                                        ![x_axis] = who[r + 1].x,
                                        ![y_axis] = who[r + 1].y,
                                        ![current_state] = who[r + 1].s,
                                        ![g_value] = who[r + 1].g]]

InitCommon ==
    /\ pc = "idle"
    /\ infected_idx = <<>>
    /\ infected_rows = <<>>
    /\ k = 1
    /\ tmp = <<>>
    /\ t = 1
    /\ ret = NoReturn
    /\ err = "none"
    /\ last = [op |-> "__init__", data |-> <<>>]
    /\ calls = 0
    /\ persons0 = persons
    /\ made = [r \in DOMAIN persons |-> 0]
    /\ table0 = persons

InitInfect ==
    /\ infection_range \in Ranges
    /\ \E size \in Sizes :
       \E who \in [1..size -> Individuals] :
          persons = Prepared(IdRange(0, size), who)
    /\ InitCommon

SpecInfect == InitInfect /\ [][NextInfect]_vars

-----------------------------------------------------------------------------
(* Claims about Virus.infect on populations with ids 0..size-1 *)

Rows == DOMAIN persons

\* the rows that were healthy when the call began and are infected now
NewlyInfected == {r \in Rows : persons0[r][9] = 0 /\ persons[r][9] = 1}

RECURSIVE SumOver(_, _)
SumOver(f, S) ==
    IF S = {} THEN 0
    ELSE LET r == CHOOSE r \in S : TRUE IN f[r] + SumOver(f, S \ {r})

\* per row, how far the g_value has dropped since the call began
GDrop == [r \in Rows |-> persons0[r][g_value] - persons[r][g_value]]

\* C1: the only change infect makes to a disease state is 0 -> 1: a row in
\* state 1, 2 or 3 keeps its state at every step, and no row is added or removed.
C1_OnlyHealthyToInfected ==
    [][/\ DOMAIN persons' = DOMAIN persons
       /\ \A r \in DOMAIN persons :
             persons'[r][9] # persons[r][9] => persons[r][9] = 0 /\ persons'[r][9] = 1]_vars

\* an infection has happened while an immune or dead individual stood in the
\* infector's box
C1_Witness ==
    /\ pc = "idle"
    /\ \E r \in NewlyInfected, q \in Rows :
          /\ persons[q][9] \in {2, 3}
          /\ persons[q][x_axis] = persons[r][x_axis]
          /\ persons[q][y_axis] = persons[r][y_axis]

\* C2: at every point of a call the number of individuals that went from
\* healthy to infected equals the total decrease of g_value; and a step that
\* infects nobody changes no g_value.
C2_InfectionsPairedWithDecrements ==
    /\ [](Cardinality(NewlyInfected) = SumOver(GDrop, Rows))
    /\ [][(\A r \in DOMAIN persons : persons'[r][9] = persons[r][9])
            => \A r \in DOMAIN persons : persons'[r][g_value] = persons[r][g_value]]_vars

\* a call is over in which two infected individuals had the same healthy
\* individual in their boxes, and it was infected
C2_Witness ==
    /\ pc = "idle"
    /\ \E r \in NewlyInfected, a, b \in Rows :
          /\ a # b
          /\ persons0[a][9] = 1 /\ persons0[b][9] = 1
          /\ InBox(persons0, r, XBounds(persons0, a, infection_range),
                                YBounds(persons0, a, infection_range))
          /\ InBox(persons0, r, XBounds(persons0, b, infection_range),
                                YBounds(persons0, b, infection_range))

\* C3: no g_value becomes negative, a row has infected at most as many
\* individuals as its initial g_value, and while the current infector's
\* g_value is 0 no disease state changes whatever the draw is.
C3_GValueExhaustion ==
    /\ [](\A r \in Rows : persons[r][g_value] >= 0 /\ made[r] <= table0[r][g_value])
    /\ [][(pc = "for_i" /\ persons[infected_rows[k]][g_value] = 0)
            => \A r \in DOMAIN persons : persons'[r][9] = persons[r][9]]_vars

\* an infector that has used up a positive g_value is offered a healthy candidate
C3_Witness ==
    /\ pc = "for_i"
    /\ t <= Len(tmp)
    /\ persons[infected_rows[k]][g_value] = 0
    /\ made[infected_rows[k]] > 0

C10_Frame ==
    /\ DOMAIN persons = DOMAIN persons0
    /\ \A r \in Rows : \A c \in Cols :
          persons[r][c] # persons0[r][c] =>
              \/ c = 9 /\ persons0[r][9] = 0
              \/ c = g_value /\ persons0[r][9] = 1

\* a call is over that infected someone next to a healthy individual with a
\* positive g_value
C10_Witness ==
    /\ pc = "idle"
    /\ NewlyInfected # {}
    /\ \E r \in Rows : persons[r][9] = 0 /\ persons[r][g_value] > 0

-----------------------------------------------------------------------------
(* Virus.infect on populations whose id column holds what the driver left   *)
(* there: zeros when initialize_id was never called, or low..low+size-1.    *)

Lows == {-1, 0, 1}

IdColumns(size) ==
    {[n \in 1..size |-> 0]} \cup {IdRange(low, low + size) : low \in Lows}

InitAnyId ==
    /\ infection_range \in Ranges
    /\ \E size \in Sizes :
       \E ids \in IdColumns(size), who \in [1..size -> Individuals] :
          persons = Prepared(ids, who)
    /\ InitCommon

SpecAnyId == InitAnyId /\ [][NextInfect]_vars

\* the row the current idx was copied from: the infected individual itself
Infector == infected_rows[k]

\* C4: the candidates of an infector are the healthy rows strictly inside the
\* square centred on the infector's own position, and a row whose state is set
\* to 1 was healthy and strictly inside that square just before the write.
C4_BoxAroundInfectorTargetIsCandidate ==
    /\ []((pc = "for_i" /\ t = 1) =>
            tmp = find_nearby(persons, XBounds(persons, Infector, infection_range),
                                       YBounds(persons, Infector, infection_range)))
    /\ [][\A r \in DOMAIN persons :
             (persons[r][9] # 1 /\ persons'[r][9] = 1) =>
                 InBox(persons, r, XBounds(persons, Infector, infection_range),
                                   YBounds(persons, Infector, infection_range))]_vars

-----------------------------------------------------------------------------
(* Freshly constructed populations and the calls of a driver *)

Lens == 0..3

\* the data a driver passes: for each length two 0/1 sequences
Data == UNION {{[n \in 1..len |-> n % 2], [n \in 1..len |-> (n + 1) % 2]} : len \in Lens}

InitPopulation ==
    /\ infection_range \in {1}
    /\ \E size \in Sizes : persons = Population(size)
    /\ InitCommon

Setters ==
    \E data \in Data :
        \/ set_age(data)
        \/ set_x_axis(data)
        \/ set_current_state(data)
        \/ set_y_axis(data)
        \/ set_g_value(data)
        \/ set_speed(data)
        \/ set_at_destination(data)
        \/ set_active(data)
        \/ set_x_dir(data)
        \/ set_y_dir(data)
        \/ set_mask_effectiveness(data)

InitializeId == \E low \in Lows, len \in Lens : initialize_id(low, low + len)

Getters ==
    \/ get_x_axis
    \/ get_y_axis
    \/ get_current_state
    \/ get_person
    \/ get_all_infected_call
    \/ get_all_healthy_call
    \/ get_currently_active_info

NextSetters == Setters \/ InitializeId

SpecSetters == InitPopulation /\ [][NextSetters]_vars

NextRoundTrip == Setters \/ InitializeId \/ Getters

SpecRoundTrip == InitPopulation /\ [][NextRoundTrip]_vars

InitializeMaskEff == \E size \in Sizes : \E data \in [1..size -> MaskRange] : initialize_mask_eff(data)

NextSusceptibility ==
    \/ InitializeMaskEff
    \/ \E data \in Data : set_mask_effectiveness(data)
    \/ initialize_susceptibility

SpecSusceptibility == InitPopulation /\ [][NextSusceptibility]_vars

-----------------------------------------------------------------------------
(* Virus.find_nearby as a function of a table and two pairs of bounds *)

\* individuals in any disease state anywhere on the grid
AnyIndividuals == [x : Coords, y : YCoords, s : States, g : {0}]

XBoundPairs == {b \in (-1..(MaxCoord + 1)) \X (-1..(MaxCoord + 1)) : b[1] < b[2]}
YBoundPairs == {b \in (-1..2) \X (-1..2) : b[1] < b[2]}

InitNearby ==
    /\ infection_range \in {1}
    /\ \E size \in Sizes :
       \E who \in [1..size -> AnyIndividuals] :
          persons = Prepared(IdRange(0, size), who)
    /\ InitCommon

\* one call per behaviour: the function reads nothing a call could have left
FindNearby ==
    /\ pc = "idle"
    /\ ret = NoReturn
    /\ \E x_bounds \in XBoundPairs, y_bounds \in YBoundPairs :
          ret' = [op |-> "find_nearby", val |-> find_nearby(persons, x_bounds, y_bounds),
                  x_bounds |-> x_bounds, y_bounds |-> y_bounds]
    /\ err' = "none"
    /\ UNCHANGED <<persons, infection_range, pc, infectLocals, last, calls, persons0, table0>>

SpecNearby == InitNearby /\ [][FindNearby]_vars

\* the rows the claim says are selected
Qualifying(xb, yb) ==
    {r \in Rows : /\ xb[1] < persons[r][2] /\ persons[r][2] < xb[2]
                  /\ yb[1] < persons[r][3] /\ persons[r][3] < yb[2]
                  /\ persons[r][9] = 0}

\* C5: find_nearby returns the ids of exactly the healthy rows strictly inside
\* the bounds, each once and in row order.
C5_FindNearbyExact ==
    ret.op = "find_nearby" =>
        LET Q == Qualifying(ret.x_bounds, ret.y_bounds)
        IN  /\ Len(ret.val) = Cardinality(Q)
            /\ {ret.val[n] : n \in 1..Len(ret.val)} = {persons[r][0] : r \in Q}
            /\ \A m, n \in 1..Len(ret.val) : m < n => ret.val[m] < ret.val[n]

\* a call returned one id while a healthy row lay exactly on a bound and an
\* infected row lay strictly inside
C5_Witness ==
    /\ ret.op = "find_nearby"
    /\ Len(ret.val) = 1
    /\ \E r \in Rows :
          /\ persons[r][9] = 0
          /\ persons[r][2] = ret.x_bounds[2]
          /\ ret.y_bounds[1] < persons[r][3] /\ persons[r][3] < ret.y_bounds[2]
    /\ \E r \in Rows :
          /\ persons[r][9] = 1
          /\ ret.x_bounds[1] < persons[r][2] /\ persons[r][2] < ret.x_bounds[2]
          /\ ret.y_bounds[1] < persons[r][3] /\ persons[r][3] < ret.y_bounds[2]

-----------------------------------------------------------------------------
(* Claims about the Population calls *)

\* the last writing call was given data of the table's length
FullLength == Len(last.data) = NumRows(persons)

\* the rows of the table at which data is v, as get_all_infected would list them
RowsWhereData(v) ==
    LET sel == RowsFrom([r \in Rows |-> [c \in {9} |-> last.data[r + 1]]], 9, v, 0)
    IN  [n \in 1..Len(sel) |-> persons[sel[n]]]

\* C6: after set_X(data) with data of the table's length, get_X() returns
\* data, for x_axis, y_axis, active and current_state; and after
\* set_current_state(data) get_all_infected / get_all_healthy return the rows
\* where data is 1 / 0.
C6_GetterSetterRoundTrip ==
    /\ (last.op = "set_x_axis" /\ FullLength /\ ret.op = "get_x_axis") => ret.val = last.data
    /\ (last.op = "set_y_axis" /\ FullLength /\ ret.op = "get_y_axis") => ret.val = last.data
    /\ (last.op = "set_active" /\ FullLength /\ ret.op = "get_currently_active_info")
          => ret.val = last.data
    /\ (last.op = "set_current_state" /\ FullLength /\ ret.op = "get_current_state")
          => ret.val = last.data
    /\ (last.op = "set_current_state" /\ FullLength /\ ret.op = "get_all_infected")
          => ret.val = RowsWhereData(1)
    /\ (last.op = "set_current_state" /\ FullLength /\ ret.op = "get_all_healthy")
          => ret.val = RowsWhereData(0)

\* the part of C6 the code satisfies: the round trip of x_axis, y_axis and active
C6_RoundTripOfPositionsAndActive ==
    /\ (last.op = "set_x_axis" /\ FullLength /\ ret.op = "get_x_axis") => ret.val = last.data
    /\ (last.op = "set_y_axis" /\ FullLength /\ ret.op = "get_y_axis") => ret.val = last.data
    /\ (last.op = "set_active" /\ FullLength /\ ret.op = "get_currently_active_info")
          => ret.val = last.data

\* C7 as claimed: a setter or initialize_id given data of any other length than
\* the table's raises and leaves the table as it was.
C7_WrongLengthAlwaysFails ==
    (last.op # "__init__" /\ ~FullLength) => (err = "ValueError" /\ persons = persons0)

\* C7 as amended: data whose length is neither the table's nor 1 raises and
\* leaves the table as it was; data of length 1 given to a table of another
\* size raises nothing and its one value is written to every row of the
\* call's column, the other columns staying as they were.
C7_WrongLengthFailsUnlessLengthOne ==
    (last.op # "__init__" /\ ~FullLength) =>
        IF Len(last.data) = 1
        THEN /\ err = "none"
             /\ \E col \in Cols \ {13} :
                   \A r \in Rows : \A c \in Cols :
                       persons[r][c] = IF c = col THEN last.data[1] ELSE persons0[r][c]
        ELSE err = "ValueError" /\ persons = persons0

\* a call with data of length 1 has written a table of three rows
C7_Witness ==
    /\ last.op # "__init__"
    /\ Len(last.data) = 1
    /\ NumRows(persons) = 3
    /\ err = "none"
    /\ persons # persons0

\* the decimal literals of the claim, as binary64 values
F_0_1 == Quotient(1, 10)
F_0_01 == Quotient(1, 100)
F_0_05 == Quotient(5, 100)
F_0_03 == Quotient(3, 100)

\* initialize_susceptibility has just returned: every susceptibility of a row
\* whose mask_effectiveness is one of the four values lies in [0, 0.1], and no
\* column but 13 has changed
SusceptibilityRangeAndFrame ==
    \A r \in Rows :
        /\ persons[r][15] \in MaskRange =>
              FLe(FZero, persons[r][13]) /\ FLe(persons[r][13], F_0_1)
        /\ \A c \in Cols \ {13} : persons[r][c] = persons0[r][c]

\* C8 as claimed: after initialize_susceptibility the susceptibility is 0.01
\* where mask_effectiveness is 90 and 0.1 where it is 0, lies in [0, 0.1] for
\* the four mask values, and no other column has changed.
C8_SusceptibilityDecimal ==
    last.op = "initialize_susceptibility" =>
        /\ \A r \in Rows :
              /\ persons[r][15] = 90 => persons[r][13] = F_0_01
              /\ persons[r][15] = 0 => persons[r][13] = F_0_1
        /\ SusceptibilityRangeAndFrame

\* C8 as amended: where mask_effectiveness is 90 the susceptibility is the
\* binary64 value next above 0.01 (0.1 * 0.1 rounded, 0.010000000000000002);
\* where it is 0, 50, 70 it is 0.1, 0.05, 0.03; the range and the frame hold.
C8_SusceptibilityBinary64 ==
    last.op = "initialize_susceptibility" =>
        /\ \A r \in Rows :
              /\ persons[r][15] = 90 => persons[r][13] = FSucc(F_0_01)
              /\ persons[r][15] = 70 => persons[r][13] = F_0_03
              /\ persons[r][15] = 50 => persons[r][13] = F_0_05
              /\ persons[r][15] = 0 => persons[r][13] = F_0_1
        /\ SusceptibilityRangeAndFrame

\* initialize_susceptibility has run on a table with a mask of 90 in one row
\* and a mask never set in another
C8_Witness ==
    /\ last.op = "initialize_susceptibility"
    /\ \E r, q \in Rows :
          /\ persons[r][15] = 90
          /\ persons[q][15] = 0
          /\ persons[q][13] # FZero

=============================================================================
